---- MODULE Spec2Model ----
(***************************************************************************)
(* A model of src/app.py: a Streamlit console over a MySQL database.       *)
(*                                                                         *)
(* Every browser session runs the script top to bottom on each widget      *)
(* event; the script reads st.session_state, talks to the database and     *)
(* may change either.  An action below is one such run for one session,    *)
(* named after the handler whose widget triggered it.  The only run that   *)
(* is split in two is the "delete user" run of user_management: it reads   *)
(* the users table (line 376) and later issues DELETE (line 392) on a      *)
(* separate connection, so other sessions' statements may interleave.      *)
(*                                                                         *)
(* The database is outside the source.  Its model: a users table whose id  *)
(* is a key and whose username is unique (spec.md, sections 3 and 6), an   *)
(* auto-increment counter for rows inserted without an id, and the         *)
(* possibility that any statement raises an error.                         *)
(***************************************************************************)
EXTENDS Integers, Sequences, FiniteSets, TLC

\* ------------------------------------------------------------------ bounds

\* Largest row id of the users table the model lets the database hand out.
MaxId == 3

\* ------------------------------------------------------------- input sets

Sessions == {"s1", "s2"}

\* Texts typed into the username field of the login and create-user forms.
UsernameTexts == {"", "alice", "bob"}

\* Texts typed into the password fields.
PasswordTexts == {"", "pw1", "pw2"}

\* Texts typed into the password field of the create-user form.
NewPasswordTexts == {"", "pw1"}

\* bcrypt.gensalt() results.
Salts == {"saltA"}

\* st.selectbox("角色", ["user", "admin"]), line 348.
Roles == {"user", "admin"}

\* ------------------------------------------------------------------ state

VARIABLES
    users,      \* the rows of table users: [id, username, password_hash, role]
    nextId,     \* the table's auto-increment counter
    session,    \* st.session_state of each browser session
    pc,         \* where each session's current script run stands
    pending,    \* the id of the users row whose delete button the run saw pressed
    outcome,    \* how the most recent handler run ended
    widgets,    \* the data_query widgets' values in the run that built lastQuery
    lastQuery   \* the statement data_query assembled last, and its result size

vars == <<users, nextId, session, pc, pending, outcome, widgets, lastQuery>>

\* ------------------------------------------------------------ credentials

\* bcrypt.hashpw(password, salt): the salt is stored in the hash, the digest
\* is a function of salt and password.
hashpw(password, salt) == "$2b$" \o salt \o "$" \o password

\* The salt embedded in a stored hash, "" when the text is no bcrypt hash.
SaltOf(hash) ==
    IF \E salt \in Salts :
          /\ Len(hash) >= Len("$2b$" \o salt \o "$")
          /\ SubSeq(hash, 1, Len("$2b$" \o salt \o "$")) = "$2b$" \o salt \o "$"
    THEN CHOOSE salt \in Salts :
          /\ Len(hash) >= Len("$2b$" \o salt \o "$")
          /\ SubSeq(hash, 1, Len("$2b$" \o salt \o "$")) = "$2b$" \o salt \o "$"
    ELSE ""

\* checkpw as a bug would have it: any password passes a well-formed hash.
checkpwAnyPassword(password, hash) ==
    IF SaltOf(hash) = "" THEN "error" ELSE "match"

\* bcrypt.checkpw(password, hash): raises ValueError("Invalid salt") on a text
\* that is no hash, otherwise re-hashes with the stored salt and compares.
checkpw(password, hash) ==
    IF SaltOf(hash) = "" THEN "error"
    ELSE IF hashpw(password, SaltOf(hash)) = hash THEN "match" ELSE "mismatch"

\* ------------------------------------------------------------- the schema

\* SHOW COLUMNS FROM `users` (spec.md section 6); the columns the code reads
\* are id, username, password_hash and role; created_at is only displayed.
UsersColumns == <<"id", "username", "password_hash", "role", "created_at">>

\* Texts an administrator types into the data_write form of table users, by
\* column.  A text is stored verbatim; the id column takes a decimal number.
\* The hash texts are a text that is no bcrypt hash and the hash of the
\* empty password.
FieldTexts(col) ==
    CASE col = "id"            -> {"", "2"}
      [] col = "username"      -> UsernameTexts
      [] col = "password_hash" -> {"", hashpw("", "saltA")}
      [] col = "role"          -> {" "}
      [] OTHER                 -> {""}

Range(f) == {f[x] : x \in DOMAIN f}

\* str.strip(): the text without its leading and trailing whitespace.
RECURSIVE strip(_)
strip(text) ==
    IF text = "" THEN ""
    ELSE IF SubSeq(text, 1, 1) = " " THEN strip(SubSeq(text, 2, Len(text)))
    ELSE IF SubSeq(text, Len(text), Len(text)) = " "
         THEN strip(SubSeq(text, 1, Len(text) - 1))
    ELSE text

\* new_data, lines 319-322: a text for every column of the table.
UsersForms ==
    [id : FieldTexts("id"), username : FieldTexts("username"),
     password_hash : FieldTexts("password_hash"), role : FieldTexts("role"),
     created_at : FieldTexts("created_at")]

\* The blank test as a bug would have it: any() for all().
AnyBlank(new_data) == \E v \in Range(new_data) : strip(v) = ""

\* all(v.strip() == "" for v in new_data.values()), line 326.
AllBlank(new_data) == \A v \in Range(new_data) : strip(v) = ""

\* The database's reading of a text bound to the integer column id: 0 when
\* the text is no number (the column then takes its auto-increment value).
IdOfText(text) ==
    IF \E i \in 1..MaxId : ToString(i) = text
    THEN CHOOSE i \in 1..MaxId : ToString(i) = text
    ELSE 0

Max(a, b) == IF a >= b THEN a ELSE b

\* ---------------------------------------------------------------- session

\* What pending holds while no delete is under way.
NoRow == 0

\* Lines 69-72, and logout's lines 115-117.
NoSession == [logged_in |-> FALSE, username |-> "", role |-> ""]

\* How a handler run ends: "ok"; "rejected": refused by the handler's own
\* validation (st.warning / st.error, nothing attempted); "denied": login
\* refused; "caught": an exception caught by the handler, reported with
\* st.error and logged; "uncaught": an exception that left the handler.
Outcomes == {"ok", "rejected", "denied", "caught", "uncaught"}

\* login_check, lines 121-126: the page a session is served.
login_check(sess) == IF sess.logged_in THEN "main_app" ELSE "login"

\* main_app, lines 138-141: the tabs built for a role.
Tabs(role) ==
    IF role = "admin" THEN {"data_query", "data_write", "user_management"}
    ELSE {"data_query"}

\* The tab test as a bug would have it: the tabs of every role, no role test.
AdminTabRunsForAnyRole(sess, tab) == tab \in Tabs("admin")

\* main_app, lines 149-155: whether the run calls the handler of an
\* administrator's tab.
AdminTabRuns(sess, tab) == tab \in Tabs(sess.role) /\ sess.role = "admin"

\* The run of session s reaches the handler of tab.
Reaches(s, tab) ==
    /\ pc[s] = "idle"
    /\ login_check(session[s]) = "main_app"
    /\ IF tab = "data_query" THEN tab \in Tabs(session[s].role)
       ELSE AdminTabRuns(session[s], tab)

\* ------------------------------------------------------------------ login

\* SELECT username, password_hash, role FROM users WHERE username = :username
\* and fetchone(), lines 88-89: the matching rows.
UserRows(username) == {r \in users : r.username = username}

\* login, lines 82-109, with the button pressed.  dbError: the lookup of
\* lines 87-89 raises.
login(s, username, password, dbError) ==
    /\ pc[s] = "idle"
    /\ login_check(session[s]) = "login"
    /\ UNCHANGED <<users, nextId, pc, pending, widgets, lastQuery>>
    /\ IF username = "" \/ password = ""
       THEN /\ outcome' = "rejected"
            /\ UNCHANGED session
       ELSE IF dbError
       THEN /\ outcome' = "uncaught"
            /\ UNCHANGED session
       ELSE IF UserRows(username) = {}
       THEN /\ outcome' = "denied"
            /\ UNCHANGED session
       ELSE \E user_data \in UserRows(username) :
              CASE checkpw(password, user_data.password_hash) = "match" ->
                     /\ session' = [session EXCEPT ![s] =
                                      [logged_in |-> TRUE,
                                       username  |-> user_data.username,
                                       role      |-> user_data.role]]
                     /\ outcome' = "ok"
                [] checkpw(password, user_data.password_hash) = "mismatch" ->
                     /\ outcome' = "denied"
                     /\ UNCHANGED session
                [] OTHER ->
                     /\ outcome' = "caught"
                     /\ UNCHANGED session

\* logout, lines 112-118, from the sidebar button of main_app (line 133).
logout(s) ==
    /\ pc[s] = "idle"
    /\ login_check(session[s]) = "main_app"
    /\ session' = [session EXCEPT ![s] = NoSession]
    /\ outcome' = "ok"
    /\ UNCHANGED <<users, nextId, pc, pending, widgets, lastQuery>>

\* ------------------------------------------------------------- data_write

\* The users row the database stores for a submitted form: texts verbatim,
\* the id from the text or from the auto-increment counter.
RowOf(new_data) ==
    [id            |-> IF IdOfText(new_data["id"]) = 0 THEN nextId
                       ELSE IdOfText(new_data["id"]),
     username      |-> new_data["username"],
     password_hash |-> new_data["password_hash"],
     role          |-> new_data["role"]]

\* The table's key on id and its unique index on username.
Violates(row) ==
    \/ \E r \in users : r.id = row.id
    \/ \E r \in users : r.username = row.username

\* data_write, lines 306-337, on table users with the form submitted.
\* dbError: "tables" (get_tables, line 309, raises), "columns" (line 316
\* raises), "insert" (to_sql raises for a cause outside the model, such as a
\* text the column's type refuses) or "none".
data_write(s, new_data, dbError) ==
    /\ Reaches(s, "data_write")
    /\ UNCHANGED <<session, pc, pending, widgets, lastQuery>>
    /\ IF dbError \in {"tables", "columns"}
       THEN /\ outcome' = "uncaught"
            /\ UNCHANGED <<users, nextId>>
       ELSE IF AllBlank(new_data)
       THEN /\ outcome' = "rejected"
            /\ UNCHANGED <<users, nextId>>
       ELSE IF dbError = "insert" \/ Violates(RowOf(new_data))
                 \/ RowOf(new_data).id > MaxId
       THEN /\ outcome' = "caught"
            /\ UNCHANGED <<users, nextId>>
       ELSE /\ users' = users \cup {RowOf(new_data)}
            /\ nextId' = Max(nextId, RowOf(new_data).id + 1)
            /\ outcome' = "ok"

\* -------------------------------------------------------- user_management

\* The create-user form, lines 351-370.  dbError: the INSERT or the commit
\* raises for a cause outside the model.
create_user(s, new_username, new_password, new_role, salt, dbError) ==
    /\ Reaches(s, "user_management")
    /\ UNCHANGED <<session, pc, pending, widgets, lastQuery>>
    /\ LET row == [id            |-> nextId,
                   username      |-> new_username,
                   password_hash |-> hashpw(new_password, salt),
                   role          |-> new_role]
       IN IF new_username = "" \/ new_password = ""
          THEN /\ outcome' = "rejected"
               /\ UNCHANGED <<users, nextId>>
          ELSE IF dbError \/ Violates(row) \/ nextId > MaxId
          THEN /\ outcome' = "caught"
               /\ UNCHANGED <<users, nextId>>
          ELSE /\ users' = users \cup {row}
               /\ nextId' = nextId + 1
               /\ outcome' = "ok"

\* Line 386: the delete button is drawn for a listed row.
DeleteOffered(sess, row) == sess.username # row.username

\* The user list, lines 375-388, in the run in which the delete button of
\* the row with this id is pressed: the list is read, and the button is
\* acted on if the row is still listed and the button is drawn for it.
\* dbError: the SELECT of line 376 raises (caught at line 406).
list_users(s, id, dbError) ==
    /\ Reaches(s, "user_management")
    /\ UNCHANGED <<users, nextId, session, widgets, lastQuery>>
    /\ IF dbError
       THEN /\ outcome' = "caught"
            /\ UNCHANGED <<pc, pending>>
       ELSE \E row \in users :
              /\ row.id = id
              /\ DeleteOffered(session[s], row)
              /\ pc' = [pc EXCEPT ![s] = "delete"]
              /\ pending' = [pending EXCEPT ![s] = row.id]
              /\ outcome' = "ok"

\* The DELETE as a bug would have it: no WHERE clause.
DeletedRowsNoWhere(id) == users

\* DELETE FROM users WHERE id = :id: the rows the statement removes.
DeletedRows(id) == {r \in users : r.id = id}

\* Lines 389-401: the DELETE for the listed row, its commit and the rerun.
\* dbError: the statement or the commit raises (caught at line 398).
delete_user(s, dbError) ==
    /\ pc[s] = "delete"
    /\ pc' = [pc EXCEPT ![s] = "idle"]
    /\ pending' = [pending EXCEPT ![s] = NoRow]
    /\ UNCHANGED <<nextId, session, widgets, lastQuery>>
    /\ IF dbError
       THEN /\ outcome' = "caught"
            /\ UNCHANGED users
       ELSE /\ users' = users \ DeletedRows(pending[s])
            /\ outcome' = "ok"

\* ------------------------------------------------------ the account system

\* No run of data_query has assembled a statement.
NoWidgets == [table |-> "", date_field |-> "", dates |-> <<>>, input |-> <<>>]

NoQuery == [built |-> FALSE, ran |-> FALSE, rows |-> 0,
            q |-> [filters |-> <<>>, where_clauses |-> <<>>, bindings |-> <<>>,
                   params |-> <<>>, query |-> ""]]

\* The users table as installed: an administrator and a plain user.  The
\* session state of lines 69-72 for every browser session.
Init ==
    /\ users = {[id |-> 1, username |-> "alice",
                 password_hash |-> hashpw("pw1", "saltA"), role |-> "admin"],
                [id |-> 2, username |-> "bob",
                 password_hash |-> hashpw("pw1", "saltA"), role |-> "user"]}
    /\ nextId = 3
    /\ session = [s \in Sessions |-> NoSession]
    /\ pc = [s \in Sessions |-> "idle"]
    /\ pending = [s \in Sessions |-> NoRow]
    /\ outcome = "ok"
    /\ widgets = NoWidgets
    /\ lastQuery = NoQuery

Next ==
    \/ \E s \in Sessions, username \in UsernameTexts, password \in PasswordTexts,
          dbError \in BOOLEAN :
          login(s, username, password, dbError)
    \/ \E s \in Sessions : logout(s)
    \/ \E s \in Sessions, new_data \in UsersForms,
          dbError \in {"none", "tables", "columns", "insert"} :
          data_write(s, new_data, dbError)
    \/ \E s \in Sessions, new_username \in UsernameTexts,
          new_password \in NewPasswordTexts, new_role \in Roles, salt \in Salts,
          dbError \in BOOLEAN :
          create_user(s, new_username, new_password, new_role, salt, dbError)
    \/ \E s \in Sessions, id \in 1..MaxId, dbError \in BOOLEAN :
          list_users(s, id, dbError)
    \/ \E s \in Sessions, dbError \in BOOLEAN : delete_user(s, dbError)

Spec == Init /\ [][Next]_vars

\* ------------------------------------------------------------- data_query

\* The quote of MySQL identifiers, a backtick in the source.  A TLA+ string
\* cannot hold a backtick; the model writes the quote as ".
Backtick == "\""

\* The row cap of line 245.
RowCap == 1000

\* SHOW TABLES and SHOW COLUMNS, lines 161 and 178: the data tables of the
\* database and their columns, in the schema's order.
Tables == {"notes", "events"}

Columns(table) ==
    IF table = "notes" THEN <<"tag", "tag_0">>
    ELSE <<"start_date", "end_Time", "tag">>

\* What a multiselect of line 211 returns: values picked among the column's
\* distinct values, in the order picked.
Selections == {<<>>, <<"v1">>, <<"v1", "v2">>}

\* What is typed into the text input of line 221.
SearchTexts == {" ", " q'-- "}

\* What the widgets of one column return.  The multiselect is drawn when the
\* DISTINCT query of line 208 answers, the text input when it raises.
FilterInputs ==
    [widget : {"multiselect"}, selected : Selections, val : {""}]
        \cup [widget : {"text_input"}, selected : {<<>>}, val : SearchTexts]

\* What st.date_input returns at line 192: a start and an end date.
DateRanges == {<< <<2024, 1, 5>>, <<2024, 11, 30>> >>,
               << <<2024, 11, 30>>, <<2024, 11, 30>> >>}

\* str.lower() on the letters the schema has in upper case.
RECURSIVE lower(_)
lower(text) ==
    IF text = "" THEN ""
    ELSE (CASE SubSeq(text, 1, 1) = "T" -> "t"
            [] SubSeq(text, 1, 1) = "D" -> "d"
            [] OTHER -> SubSeq(text, 1, 1)) \o lower(SubSeq(text, 2, Len(text)))

\* sub in text
Contains(text, sub) ==
    \E i \in 1..(Len(text) - Len(sub) + 1) : SubSeq(text, i, i + Len(sub) - 1) = sub

\* Line 185.
date_cols(cols) ==
    SelectSeq(cols, LAMBDA c : Contains(lower(c), "date") \/ Contains(lower(c), "time"))

\* Line 202; date_field is "" where the code has None.
filterable_fields(cols, date_field) == SelectSeq(cols, LAMBDA c : c # date_field)

\* date.strftime("%Y-%m-%d").
Pad2(n) == IF n < 10 THEN "0" \o ToString(n) ELSE ToString(n)

strftime(date) == ToString(date[1]) \o "-" \o Pad2(date[2]) \o "-" \o Pad2(date[3])

\* sep.join(parts)
RECURSIVE join(_, _)
join(parts, sep) ==
    IF parts = <<>> THEN ""
    ELSE IF Len(parts) = 1 THEN parts[1]
    ELSE parts[1] \o sep \o join(Tail(parts), sep)

\* The filters dict of lines 203-223, as the sequence of its items in
\* insertion order: an entry for every field with values picked or with a
\* search text that is not blank.
RECURSIVE Filters(_, _)
Filters(fields, input) ==
    IF fields = <<>> THEN <<>>
    ELSE LET field == Head(fields)
             rest  == Filters(Tail(fields), input)
         IN IF input[field].widget = "multiselect"
            THEN IF input[field].selected # <<>>
                 THEN <<[field |-> field, value |-> input[field].selected,
                         match_type |-> "in_list"]>> \o rest
                 ELSE rest
            ELSE IF strip(input[field].val) # ""
                 THEN <<[field |-> field, value |-> <<strip(input[field].val)>>,
                         match_type |-> "like"]>> \o rest
                 ELSE rest

\* f'{field}_{i}', lines 233 and 236 (i counts from 0).
InListName(field, i) == field \o "_" \o ToString(i)

\* Line 238: the name of a like filter's parameter.
LikeName(field) == field

\* The fragment as a bug would have it: the search text formatted into the
\* statement.
ClauseInterpolated(filter) ==
    IF filter.match_type = "in_list"
    THEN Backtick \o filter.field \o Backtick \o " IN ("
            \o join([i \in 1..Len(filter.value) |-> ":" \o InListName(filter.field, i - 1)],
                    ", ")
            \o ")"
    ELSE Backtick \o filter.field \o Backtick \o " LIKE '%" \o filter.value[1] \o "%'"

\* The WHERE fragment of one filter, lines 232-238.
Clause(filter) ==
    IF filter.match_type = "in_list"
    THEN Backtick \o filter.field \o Backtick \o " IN ("
            \o join([i \in 1..Len(filter.value) |-> ":" \o InListName(filter.field, i - 1)],
                    ", ")
            \o ")"
    ELSE Backtick \o filter.field \o Backtick \o " LIKE :" \o LikeName(filter.field)

\* The assignments to params one filter makes, lines 235-239, in order.
Bindings(filter) ==
    IF filter.match_type = "in_list"
    THEN [i \in 1..Len(filter.value) |->
            [name |-> InListName(filter.field, i - 1), value |-> filter.value[i]]]
    ELSE <<[name |-> LikeName(filter.field), value |-> "%" \o filter.value[1] \o "%"]>>

\* Lines 226-229: the date range's fragment and assignments.
DateClause(date_field, dates) ==
    IF date_field # "" /\ Len(dates) = 2
    THEN <<Backtick \o date_field \o Backtick \o " BETWEEN :start_date AND :end_date">>
    ELSE <<>>

DateBindings(date_field, dates) ==
    IF date_field # "" /\ Len(dates) = 2
    THEN <<[name |-> "start_date", value |-> strftime(dates[1])],
           [name |-> "end_date", value |-> strftime(dates[2])]>>
    ELSE <<>>

RECURSIVE Flatten(_)
Flatten(seqs) == IF seqs = <<>> THEN <<>> ELSE Head(seqs) \o Flatten(Tail(seqs))

\* A dict after a sequence of assignments d[name] = value.
RECURSIVE Assign(_, _)
Assign(dict, bindings) ==
    IF bindings = <<>> THEN dict
    ELSE Assign([k \in DOMAIN dict \cup {Head(bindings).name} |->
                    IF k = Head(bindings).name THEN Head(bindings).value ELSE dict[k]],
                Tail(bindings))

\* The statement as bugs would have it: the fragments joined by OR; the
\* LIMIT left off a statement that has a WHERE clause.
StatementJoinedByOr(selected_table, where_clauses) ==
    "SELECT * FROM " \o Backtick \o selected_table \o Backtick
        \o (IF join(where_clauses, " OR ") # ""
            THEN " WHERE " \o join(where_clauses, " OR ") ELSE "")
        \o " LIMIT " \o ToString(RowCap)

StatementLimitIfUnfiltered(selected_table, where_clauses) ==
    "SELECT * FROM " \o Backtick \o selected_table \o Backtick
        \o (IF join(where_clauses, " AND ") # ""
            THEN " WHERE " \o join(where_clauses, " AND ")
            ELSE " LIMIT " \o ToString(RowCap))

\* Lines 241-245.
Statement(selected_table, where_clauses) ==
    "SELECT * FROM " \o Backtick \o selected_table \o Backtick
        \o (IF join(where_clauses, " AND ") # ""
            THEN " WHERE " \o join(where_clauses, " AND ") ELSE "")
        \o " LIMIT " \o ToString(RowCap)

\* Lines 185-245: what data_query assembles from the widgets' values.
BuildQuery(selected_table, date_field, dates, input) ==
    LET filters == Filters(filterable_fields(Columns(selected_table), date_field), input)
        where_clauses == DateClause(date_field, dates)
                            \o [i \in 1..Len(filters) |-> Clause(filters[i])]
        bindings == DateBindings(date_field, dates)
                            \o Flatten([i \in 1..Len(filters) |-> Bindings(filters[i])])
    IN [filters       |-> filters,
        where_clauses |-> where_clauses,
        bindings      |-> bindings,
        params        |-> Assign(<<>>, bindings),
        query         |-> Statement(selected_table, where_clauses)]

\* The database's answer to a statement that matches `matching` rows: all of
\* them, or the first k when the statement ends with LIMIT k.
Execute(query, matching) ==
    LET tail == " LIMIT " \o ToString(RowCap)
    IN IF Len(query) >= Len(tail)
          /\ SubSeq(query, Len(query) - Len(tail) + 1, Len(query)) = tail
          /\ matching > RowCap
       THEN RowCap
       ELSE matching

\* The inputs of the filter widgets for the fields of a table.
Inputs(table, date_field) ==
    [{Columns(table)[i] : i \in 1..Len(Columns(table))} \ {date_field} -> FilterInputs]

\* data_query, lines 165-260, in one run.  date_field and dates are what the
\* date widgets return ("" and <<>> when the table has no date column and
\* they are not drawn), input what the filter widgets return, matching the
\* number of rows the statement's conditions match, or -1 when the button
\* of line 247 is not pressed.  dbError: "tables" (line 169 raises),
\* "columns" (line 178), "query" (line 250) or "none".
data_query(s, selected_table, date_field, dates, input, matching, dbError) ==
    /\ Reaches(s, "data_query")
    /\ UNCHANGED <<users, nextId, session, pc, pending>>
    /\ IF dbError = "tables"
       THEN /\ outcome' = "uncaught"
            /\ widgets' = NoWidgets
            /\ lastQuery' = NoQuery
       ELSE IF dbError = "columns"
       THEN /\ outcome' = "caught"
            /\ widgets' = NoWidgets
            /\ lastQuery' = NoQuery
       ELSE LET q == BuildQuery(selected_table, date_field, dates, input)
            IN /\ widgets' = [table |-> selected_table, date_field |-> date_field,
                              dates |-> dates, input |-> input]
               /\ IF matching < 0
                  THEN /\ outcome' = "ok"
                       /\ lastQuery' = [built |-> TRUE, ran |-> FALSE, rows |-> 0, q |-> q]
                  ELSE IF dbError = "query"
                  THEN /\ outcome' = "caught"
                       /\ lastQuery' = [built |-> TRUE, ran |-> FALSE, rows |-> 0, q |-> q]
                  ELSE /\ outcome' = "ok"
                       /\ lastQuery' = [built |-> TRUE, ran |-> TRUE,
                                        rows |-> Execute(q.query, matching), q |-> q]

\* What the date widgets of a table return: nothing when the table has no
\* date column (lines 186-187), else a date column and a range.
DateFields(table) ==
    IF date_cols(Columns(table)) = <<>> THEN {""}
    ELSE {date_cols(Columns(table))[i] : i \in 1..Len(date_cols(Columns(table)))}

DateInputs(table) == IF date_cols(Columns(table)) = <<>> THEN {<<>>} ELSE DateRanges

\* The session the query page is checked with.
QuerySessions == {"s1"}

\* The query page: a session logs in and runs data_query.
NextQuery ==
    \/ \E s \in QuerySessions : login(s, "bob", "pw1", FALSE)
    \/ \E s \in QuerySessions, selected_table \in Tables :
          \E date_field \in DateFields(selected_table),
             dates \in DateInputs(selected_table) :
             \E input \in Inputs(selected_table, date_field) :
                \/ \E matching \in {-1, 3, RowCap + 1} :
                      data_query(s, selected_table, date_field, dates, input,
                                 matching, "none")
                \/ data_query(s, selected_table, date_field, dates, input, 3, "query")
    \/ \E s \in QuerySessions, dbError \in {"tables", "columns"} :
          data_query(s, "", "", <<>>, <<>>, -1, dbError)

QuerySpec == Init /\ [][NextQuery]_vars

\* ------------------------------------------------- steps, as the claims see them

\* A text of spaces only.
OnlySpaces(text) == \A i \in 1..Len(text) : SubSeq(text, i, i) = " "

\* The password is the one a stored hash was made from.
Matches(password, hash) == \E salt \in Salts : hash = hashpw(password, salt)

\* The stored rows a submitted pair matches.
MatchingRows(username, password) ==
    {r \in users : r.username = username /\ Matches(password, r.password_hash)}

\* Session s submits the data_write form, and the form is shown.
WriteStep(s, new_data) ==
    \E dbError \in {"none", "insert"} : data_write(s, new_data, dbError)

\* Session s takes a step of data_write or of user_management.
AdminStep(s) ==
    \/ \E new_data \in UsersForms, dbError \in {"none", "tables", "columns", "insert"} :
          data_write(s, new_data, dbError)
    \/ \E new_username \in UsernameTexts, new_password \in NewPasswordTexts,
          new_role \in Roles, salt \in Salts, dbError \in BOOLEAN :
          create_user(s, new_username, new_password, new_role, salt, dbError)
    \/ \E id \in 1..MaxId, dbError \in BOOLEAN : list_users(s, id, dbError)
    \/ \E dbError \in BOOLEAN : delete_user(s, dbError)

IsAdmin(sess) == sess.logged_in /\ sess.role = "admin"

\* ------------------------------------------------------------------ claims

\* C1 as stated, for the attempts whose lookup the database answers: a login
\* attempt with a pair that matches a stored row's hash logs the session in
\* with that row's username and role, and every other attempt leaves the
\* session logged out with empty username and role.
ClaimC1 ==
    [][\A s \in Sessions, username \in UsernameTexts, password \in PasswordTexts :
         login(s, username, password, FALSE) =>
            IF MatchingRows(username, password) # {}
            THEN \E r \in MatchingRows(username, password) :
                    session'[s] = [logged_in |-> TRUE, username |-> r.username,
                                   role |-> r.role]
            ELSE session'[s] = NoSession]_vars

\* C1, amended: a login attempt with a non-empty username and a non-empty
\* password whose lookup the database answers logs the session in with the
\* stored row's username and role if the pair matches a stored row's hash;
\* every other attempt (unknown username, wrong password, a stored text that
\* is no hash, an empty username or password, a failed lookup) leaves the
\* session logged out with empty username and role.  No attempt touches
\* another session.
TheoremC1 ==
    [][\A s \in Sessions, username \in UsernameTexts, password \in PasswordTexts,
          dbError \in BOOLEAN :
         login(s, username, password, dbError) =>
            /\ IF /\ username # "" /\ password # "" /\ ~dbError
                  /\ MatchingRows(username, password) # {}
               THEN \E r \in MatchingRows(username, password) :
                       session'[s] = [logged_in |-> TRUE, username |-> r.username,
                                      role |-> r.role]
               ELSE session'[s] = NoSession
            /\ \A t \in Sessions \ {s} : session'[t] = session[t]]_vars

\* A session is logged in as a stored user while another's attempt was denied.
WitnessC1 ==
    /\ outcome = "denied"
    /\ \E s \in Sessions, r \in users :
          session[s] = [logged_in |-> TRUE, username |-> r.username, role |-> r.role]

\* C3: a step of data_write or of user_management (create, list, delete) is
\* taken only by a session that is logged in with role admin, and the users
\* table changes only in such a step.
TheoremC3 ==
    [][/\ \A s \in Sessions : AdminStep(s) => IsAdmin(session[s])
       /\ users' # users => \E s \in Sessions : AdminStep(s) /\ IsAdmin(session[s])]_vars

\* An administrator has changed the users table while a session with role
\* user is logged in.
WitnessC3 ==
    /\ \E s \in Sessions : IsAdmin(session[s])
    /\ \E s \in Sessions : session[s].logged_in /\ session[s].role = "user"
    /\ Cardinality(users) = 3

ClaimC5 ==
    [][\A s \in Sessions :
         /\ (\E id \in 1..MaxId : list_users(s, id, FALSE)) =>
               \A r \in users : r.id = pending'[s] => r.username # session[s].username
         /\ (\E dbError \in BOOLEAN : delete_user(s, dbError)) =>
               \A r \in users \ users' : r.username # session[s].username]_vars

\* C6: a submitted form whose fields are all empty or spaces is refused and
\* leaves the table and its counter as they were; a form with a field that
\* is not blank issues one INSERT, which adds exactly one row, the form's,
\* or fails and adds none.
TheoremC6 ==
    [][\A s \in Sessions, new_data \in UsersForms :
         WriteStep(s, new_data) =>
            IF \A col \in DOMAIN new_data : OnlySpaces(new_data[col])
            THEN outcome' = "rejected" /\ users' = users /\ nextId' = nextId
            ELSE \/ outcome' = "caught" /\ users' = users
                 \/ /\ outcome' = "ok"
                    /\ users \subseteq users'
                    /\ Cardinality(users' \ users) = 1
                    /\ \A r \in users' \ users :
                          /\ r.username = new_data["username"]
                          /\ r.password_hash = new_data["password_hash"]
                          /\ r.role = new_data["role"]]_vars

\* A row typed into the data_write form is in the table.
WitnessC6 == \E r \in users : r.role = " " /\ outcome = "ok"

\* C7: no run ends with an exception that left its handler.
ClaimC7 == outcome # "uncaught"

\* The fields of the last run's table that have filter widgets.
FilterFields == DOMAIN widgets.input

\* The values the user supplied in the last run: the values picked, the
\* search texts typed (as the filter uses them) and the dates, as texts.
UserValues ==
    (UNION {{widgets.input[f].selected[i] : i \in 1..Len(widgets.input[f].selected)}
              : f \in FilterFields})
      \cup ({strip(widgets.input[f].val) : f \in FilterFields} \ {""})
      \cup {strftime(widgets.dates[i]) : i \in 1..Len(widgets.dates)}

\* The widgets' values with every user-supplied value replaced by another:
\* as many values picked, a search text where there was one, other dates.
OtherInput ==
    [f \in FilterFields |->
        [widget   |-> widgets.input[f].widget,
         selected |-> [i \in 1..Len(widgets.input[f].selected) |-> "other"],
         val      |-> IF strip(widgets.input[f].val) = "" THEN widgets.input[f].val
                      ELSE "other"]]

OtherDates == [i \in 1..Len(widgets.dates) |-> <<1999, 12, 31>>]

\* No filter widget of the last run holds a value.
NothingSelected ==
    \A f \in FilterFields :
        widgets.input[f].selected = <<>> /\ strip(widgets.input[f].val) = ""

\* The fields with values picked or a search text, in the table's order.
ActiveFields ==
    SelectSeq(Columns(widgets.table),
              LAMBDA c : /\ c \in FilterFields
                         /\ \/ widgets.input[c].selected # <<>>
                            \/ strip(widgets.input[c].val) # "")

Unfiltered(table) ==
    "SELECT * FROM " \o Backtick \o table \o Backtick \o " LIMIT " \o ToString(RowCap)

\* C8 as stated: when no filter widget holds a value, the statement is
\* SELECT * FROM <table> LIMIT 1000, whatever the table.
ClaimC8 ==
    (lastQuery.built /\ NothingSelected) => lastQuery.q.query = Unfiltered(widgets.table)

\* C8, amended: the statement's WHERE clause is the fragments of the active
\* filters joined by AND, one fragment for the date range if the table has a
\* date/time-named column (the range always has a value) and one for every
\* field with values picked or a search text; with no such field the
\* statement is SELECT * FROM <table> LIMIT 1000 for a table with no
\* date/time-named column, and SELECT * FROM <table> WHERE <date column>
\* BETWEEN :start_date AND :end_date LIMIT 1000 for a table with one.
TheoremC8 ==
    lastQuery.built =>
        /\ Len(lastQuery.q.where_clauses) =
              Len(ActiveFields) + (IF widgets.date_field = "" THEN 0 ELSE 1)
        /\ lastQuery.q.query =
              "SELECT * FROM " \o Backtick \o widgets.table \o Backtick
                 \o (IF lastQuery.q.where_clauses = <<>> THEN "" ELSE " WHERE ")
                 \o join(lastQuery.q.where_clauses, " AND ")
                 \o " LIMIT " \o ToString(RowCap)
        /\ \A i \in 1..Len(ActiveFields) :
              Contains(lastQuery.q.where_clauses
                          [i + (IF widgets.date_field = "" THEN 0 ELSE 1)],
                       Backtick \o ActiveFields[i] \o Backtick)
        /\ (widgets.date_field = "") = (date_cols(Columns(widgets.table)) = <<>>)
        /\ NothingSelected =>
              IF widgets.date_field = ""
              THEN lastQuery.q.query = Unfiltered(widgets.table)
              ELSE lastQuery.q.query =
                      "SELECT * FROM " \o Backtick \o widgets.table \o Backtick
                         \o " WHERE " \o Backtick \o widgets.date_field \o Backtick
                         \o " BETWEEN :start_date AND :end_date LIMIT "
                         \o ToString(RowCap)

\* Statements were assembled with nothing selected for a table with a date
\* column, and the last one has two filters joined by AND.
WitnessC8 ==
    /\ lastQuery.built
    /\ widgets.date_field # ""
    /\ Len(ActiveFields) = 1
    /\ Contains(lastQuery.q.query, " AND " \o Backtick)

\* C9: every statement data_query assembles ends with LIMIT 1000, with or
\* without a WHERE clause, and a statement that ran returned at most 1000
\* rows.
TheoremC9 ==
    lastQuery.built =>
        /\ Len(lastQuery.q.query) > Len(" LIMIT 1000")
        /\ SubSeq(lastQuery.q.query,
                  Len(lastQuery.q.query) - Len(" LIMIT 1000") + 1,
                  Len(lastQuery.q.query)) = " LIMIT 1000"
        /\ lastQuery.ran => lastQuery.rows <= 1000

\* A statement with a WHERE clause that matches more than 1000 rows ran.
WitnessC9 ==
    /\ lastQuery.ran
    /\ lastQuery.rows = 1000
    /\ lastQuery.q.where_clauses # <<>>

\* C10: every assignment to params is still in params when the statement
\* is run, and no two assignments have the same name.
ClaimC10 ==
    lastQuery.built =>
        /\ \A i \in 1..Len(lastQuery.q.bindings) :
              lastQuery.q.params[lastQuery.q.bindings[i].name]
                 = lastQuery.q.bindings[i].value
        /\ \A i, j \in 1..Len(lastQuery.q.bindings) :
              i # j => lastQuery.q.bindings[i].name # lastQuery.q.bindings[j].name

====
